---- MODULE Spec2Model ----
(***************************************************************************)
(* PortTime for Linux (porttime/ptlinux.c): the timer service's lifecycle  *)
(* (Pt_Start, Pt_Stop, Pt_Started, Pt_Time) and its periodic callback      *)
(* thread (Pt_CallbackProc), as a state machine.                           *)
(*                                                                         *)
(* The static data of the file are the variables time_started_flag,        *)
(* time_offset, pt_thread_pid and pt_callback_proc_id.  The heap holds the *)
(* pt_callback_parameters blocks, threads holds the threads pthread_create *)
(* has made, clock is the operating system's clock.  Each caller thread    *)
(* walks through the statements of the function it has called (pc), so     *)
(* that the background thread and other callers interleave with it.        *)
(***************************************************************************)
EXTENDS Integers, Sequences, FiniteSets, TLC

\* ---------------------------------------------------------------- bounds
MaxSec == 1          \* the clock stops advancing at MaxSec seconds
MaxAlloc == 2        \* malloc returns NULL once MaxAlloc blocks are allocated
MaxGen == 1          \* Pt_Stop is called at most MaxGen times
MaxConcCalls == 1    \* calls each of two concurrent callers makes
MaxSampleSec == 1    \* the seconds field of the clock samples Pt_Time is given
MaxSubSec == 2       \* the sub-millisecond clock stops advancing at MaxSubSec seconds
MaxTickSec == 3      \* the quarter-second clock stops advancing at MaxTickSec seconds
MaxLiveCalls == 2    \* calls the caller makes where termination is checked

\* ------------------------------------------------------------- vocabulary
NULL == 0
Callers == {1, 2}
Callbacks == {"cbA", "cbB"}
NoCallback == "NULL"
UserDatas == {"ctx1", "ctx2"}
Resolutions == {500, 1000}
NoArgs == [resolution |-> 0, callback |-> NoCallback, userData |-> "none"]
\* the argument lists Pt_Start is called with: two callbacks that differ in
\* every argument, and a call without a callback
ArgSet == {[resolution |-> 500, callback |-> "cbA", userData |-> "ctx1"],
           [resolution |-> 1000, callback |-> "cbB", userData |-> "ctx2"],
           [resolution |-> 500, callback |-> NoCallback, userData |-> "ctx1"]}
ZeroTime == [sec |-> 0, nsec |-> 0]
\* A pthread_t that names no thread: what pthread_create may leave behind
\* when it fails (POSIX leaves the contents undefined).
InvalidHandle == MaxAlloc + 1

VARIABLES
    time_started_flag,    \* static int time_started_flag
    time_offset,          \* static op_time time_offset
    pt_thread_pid,        \* static pthread_t pt_thread_pid (0: zero-initialised)
    pt_callback_proc_id,  \* static int pt_callback_proc_id
    heap,                 \* the allocated pt_callback_parameters, by address 1..Len
    threads,              \* the threads created, by handle 1..Len
    clock,                \* the OS clock sample get_time() returns
    crashed,              \* the process was killed by undefined behaviour
    pc,                   \* per caller: the statement it is at
    args,                 \* per caller: the arguments of its (last) Pt_Start
    parms,                \* per caller: Pt_Start's local parms
    jh,                   \* per caller: the handle its pthread_join waits on
    ret,                  \* per caller: the last lifecycle call and its return value
    pre,                  \* per caller: the service state when its last Pt_Start began
    t0,                   \* per caller: the clock sample its last Pt_Start stored
    invocations,          \* number of callback invocations made so far
    budget,               \* per caller: the calls it may still make (negative: any number)
    tret                  \* per caller: what its last Pt_Time since its last lifecycle call returned

vars == <<time_started_flag, time_offset, pt_thread_pid, pt_callback_proc_id,
          heap, threads, clock, crashed, pc, args, parms, jh, ret, pre, t0,
          invocations, budget, tret>>

service == <<time_started_flag, time_offset, pt_thread_pid, pt_callback_proc_id,
             heap, threads>>

\* ------------------------------------------------------------------ clock
NsPerSec == 1000 * 1000 * 1000
NsPerMs == 1000 * 1000
\* the clock is sampled every half second
ClockStepNs == 500 * NsPerMs

\* C's integer division truncates toward zero.
TruncDiv(a, b) == IF a >= 0 THEN a \div b ELSE -((-a) \div b)

\* (mutation of timediff_from: a second counted as 100 milliseconds)
timediff_from_WrongScale(origin, now) ==
    ((now.sec - origin.sec) * 100) + TruncDiv(now.nsec - origin.nsec, NsPerMs)

\* timediff_ms: milliseconds from time_offset to the sample now.
timediff_from(origin, now) ==
    ((now.sec - origin.sec) * 1000) + TruncDiv(now.nsec - origin.nsec, NsPerMs)

\* (mutation of timediff_ms: the operands of the subtraction are exchanged)
timediff_ms_Swapped(now) == timediff_from(now, time_offset)

timediff_ms(now) == timediff_from(time_offset, now)

\* Pt_Time: get_time(&now); return timediff_ms(now).
Pt_Time == timediff_ms(clock)

\* Pt_Started: return time_started_flag.
Pt_Started == time_started_flag

\* the whole milliseconds that have elapsed from the sample since to now
ElapsedMs(since, now) ==
    (now.sec - since.sec) * 1000 + ((now.nsec - since.nsec) \div NsPerMs)

\* the clock samples of the numerical check: around a millisecond boundary
\* and around a seconds boundary
SampleNs == {0, 1, 500000, 999999, 1000000, NsPerSec - 1}
ClockSamples == [sec : 0..MaxSampleSec, nsec : SampleNs]

\* sample b is not earlier than sample a
NotEarlier(a, b) == b.sec > a.sec \/ (b.sec = a.sec /\ b.nsec >= a.nsec)

AddNs(t, ns) ==
    LET n == t.nsec + ns
    IN  [sec |-> t.sec + (n \div NsPerSec), nsec |-> n % NsPerSec]

\* ---------------------------------------------------------------- threads
Handles == 1..Len(threads)
\* a thread that has been spawned and has not yet returned
Running(h) == h \in Handles /\ threads[h].pc # "done"
\* a handle pthread_join may be called on: a thread nobody has joined or is joining
Joinable(h) == h \in Handles /\ ~threads[h].joined
                /\ \A c \in Callers : ~(pc[c] = "stop_wait" /\ jh[c] = h)
LiveThreads == {h \in Handles : Running(h)}
Unjoined == {h \in Handles : ~threads[h].joined}

ServiceSnapshot ==
    [flag |-> time_started_flag, origin |-> time_offset,
     gen |-> pt_callback_proc_id, nheap |-> Len(heap)]
NoSnapshot == [flag |-> FALSE, origin |-> ZeroTime, gen |-> 0, nheap |-> 0]
\* no Pt_Time has returned yet
NoTime == [valid |-> FALSE, val |-> 0]

\* (mutation of NewParms: the generation is not read from the live counter)
NewParms_StaleId(a) ==
    [id |-> 0, resolution |-> a.resolution,
     callback |-> a.callback, userData |-> a.userData]

\* lines 130-133: the fields Pt_Start stores in the new registration
NewParms(a) ==
    [id |-> pt_callback_proc_id, resolution |-> a.resolution,
     callback |-> a.callback, userData |-> a.userData]

\* Pt_CallbackProc's locals at entry: mytime = 1.  since is the clock sample
\* at which the thread entered select() or the callback; post counts the
\* callback invocations it has made while its generation was no longer the
\* live one.
NewThread(p) ==
    [pc |-> "prio", parms |-> p, mytime |-> 1, delay |-> 0, since |-> ZeroTime,
     joined |-> FALSE, post |-> 0]

\* (mutation of HasCallback: a thread is spawned whatever the callback is)
HasCallback_Always(cb) == TRUE

\* line 125: if (callback)
HasCallback(cb) == cb # NoCallback

Return(c, op, val) ==
    /\ pc' = [pc EXCEPT ![c] = "idle"]
    /\ ret' = [ret EXCEPT ![c] = [op |-> op, val |-> val]]

\* ----------------------------------------------------------------- Pt_Start
StartCall(c, a) ==
    /\ ~crashed /\ pc[c] = "idle"
    /\ pc' = [pc EXCEPT ![c] = "start_check"]
    /\ args' = [args EXCEPT ![c] = a]
    /\ pre' = [pre EXCEPT ![c] = ServiceSnapshot]
    /\ UNCHANGED <<service, clock, crashed, parms, jh, ret, t0, invocations>>
    /\ budget[c] # 0
    /\ budget' = [budget EXCEPT ![c] = IF @ > 0 THEN @ - 1 ELSE @]
    /\ tret' = [tret EXCEPT ![c] = NoTime]

\* (mutation of AlreadyStarted: the double-start guard is missing)
AlreadyStarted_Never == FALSE

\* line 123: if (time_started_flag) return ptNoError;
AlreadyStarted == time_started_flag

StartCheck(c) ==
    /\ ~crashed /\ pc[c] = "start_check"
    /\ IF AlreadyStarted
          THEN Return(c, "start", "ptNoError")
          ELSE pc' = [pc EXCEPT ![c] = "start_gettime"] /\ ret' = ret
    /\ UNCHANGED <<service, clock, crashed, args, parms, jh, pre, t0,
                   invocations, budget, tret>>

\* line 124: get_time(&time_offset); line 125: if (callback)
StartGetTime(c) ==
    /\ ~crashed /\ pc[c] = "start_gettime"
    /\ time_offset' = clock
    /\ t0' = [t0 EXCEPT ![c] = clock]
    /\ pc' = [pc EXCEPT ![c] = IF HasCallback(args[c].callback)
                                  THEN "start_malloc" ELSE "start_setflag"]
    /\ UNCHANGED <<time_started_flag, pt_thread_pid, pt_callback_proc_id, heap,
                   threads, clock, crashed, args, parms, jh, ret, pre,
                   invocations, budget, tret>>

\* lines 127-129: malloc fails
StartMallocFail(c) ==
    /\ ~crashed /\ pc[c] = "start_malloc"
    /\ parms' = [parms EXCEPT ![c] = NULL]
    /\ Return(c, "start", "ptInsufficientMemory")
    /\ UNCHANGED <<service, clock, crashed, args, jh, pre, t0,
                   invocations, budget, tret>>

\* lines 127-133: malloc succeeds and the registration is filled in
StartMallocOk(c) ==
    /\ ~crashed /\ pc[c] = "start_malloc"
    /\ Len(heap) < MaxAlloc
    /\ heap' = Append(heap, NewParms(args[c]))
    /\ parms' = [parms EXCEPT ![c] = Len(heap) + 1]
    /\ pc' = [pc EXCEPT ![c] = "start_create"]
    /\ UNCHANGED <<time_started_flag, time_offset, pt_thread_pid,
                   pt_callback_proc_id, threads, clock, crashed, args, jh, ret,
                   pre, t0, invocations, budget, tret>>

\* (mutation of StartCreateFail: the result of pthread_create is not tested)
StartCreateFail_Ignored(c) ==
    /\ ~crashed /\ pc[c] = "start_create"
    /\ \E h \in {pt_thread_pid, InvalidHandle} : pt_thread_pid' = h
    /\ pc' = [pc EXCEPT ![c] = "start_setflag"]
    /\ UNCHANGED <<time_started_flag, time_offset, pt_callback_proc_id, heap,
                   threads, clock, crashed, args, parms, jh, ret, pre, t0,
                   invocations, budget, tret>>

\* lines 134-136: pthread_create fails; *thread is left undefined
StartCreateFail(c) ==
    /\ ~crashed /\ pc[c] = "start_create"
    /\ \E h \in {pt_thread_pid, InvalidHandle} : pt_thread_pid' = h
    /\ Return(c, "start", "ptHostError")
    /\ UNCHANGED <<time_started_flag, time_offset, pt_callback_proc_id, heap,
                   threads, clock, crashed, args, parms, jh, pre, t0,
                   invocations, budget, tret>>

\* lines 134-135: pthread_create starts Pt_CallbackProc(parms)
StartCreateOk(c) ==
    /\ ~crashed /\ pc[c] = "start_create"
    /\ threads' = Append(threads, NewThread(parms[c]))
    /\ pt_thread_pid' = Len(threads) + 1
    /\ pc' = [pc EXCEPT ![c] = "start_setflag"]
    /\ UNCHANGED <<time_started_flag, time_offset, pt_callback_proc_id, heap,
                   clock, crashed, args, parms, jh, ret, pre, t0,
                   invocations, budget, tret>>

\* lines 138-139: time_started_flag = TRUE; return ptNoError;
StartSetFlag(c) ==
    /\ ~crashed /\ pc[c] = "start_setflag"
    /\ time_started_flag' = TRUE
    /\ Return(c, "start", "ptNoError")
    /\ UNCHANGED <<time_offset, pt_thread_pid, pt_callback_proc_id, heap,
                   threads, clock, crashed, args, parms, jh, pre, t0,
                   invocations, budget, tret>>

\* ------------------------------------------------------------------ Pt_Stop
StopCall(c) ==
    /\ ~crashed /\ pc[c] = "idle"
    /\ pt_callback_proc_id < MaxGen
    /\ pc' = [pc EXCEPT ![c] = "stop_incr"]
    /\ pre' = [pre EXCEPT ![c] = NoSnapshot]
    /\ UNCHANGED <<service, clock, crashed, args, parms, jh, ret, t0,
                   invocations>>
    /\ budget[c] # 0
    /\ budget' = [budget EXCEPT ![c] = IF @ > 0 THEN @ - 1 ELSE @]
    /\ tret' = [tret EXCEPT ![c] = NoTime]

\* (mutation of StopIncr: the generation advances by two)
StopIncr_ByTwo(c) ==
    /\ ~crashed /\ pc[c] = "stop_incr"
    /\ pt_callback_proc_id' = pt_callback_proc_id + 2
    /\ pc' = [pc EXCEPT ![c] = "stop_join"]
    /\ UNCHANGED <<time_started_flag, time_offset, pt_thread_pid, heap, threads,
                   clock, crashed, args, parms, jh, ret, pre, t0,
                   invocations, budget, tret>>

\* line 146: pt_callback_proc_id++;
StopIncr(c) ==
    /\ ~crashed /\ pc[c] = "stop_incr"
    /\ pt_callback_proc_id' = pt_callback_proc_id + 1
    /\ pc' = [pc EXCEPT ![c] = "stop_join"]
    /\ UNCHANGED <<time_started_flag, time_offset, pt_thread_pid, heap, threads,
                   clock, crashed, args, parms, jh, ret, pre, t0,
                   invocations, budget, tret>>

\* line 147: pthread_join(pt_thread_pid, NULL) on a joinable thread: wait for it
StopJoinCall(c) ==
    /\ ~crashed /\ pc[c] = "stop_join"
    /\ Joinable(pt_thread_pid)
    /\ jh' = [jh EXCEPT ![c] = pt_thread_pid]
    /\ pc' = [pc EXCEPT ![c] = "stop_wait"]
    /\ UNCHANGED <<service, clock, crashed, args, parms, ret, pre, t0,
                   invocations, budget, tret>>

\* line 147: pthread_join(pt_thread_pid, NULL) on a handle that names no
\* joinable thread (never set, left undefined, already joined or being
\* joined) is undefined: the call returns an error, which is ignored
StopJoinInvalidReturns(c) ==
    /\ ~crashed /\ pc[c] = "stop_join"
    /\ ~Joinable(pt_thread_pid)
    /\ pc' = [pc EXCEPT ![c] = "stop_setflag"]
    /\ UNCHANGED <<service, clock, crashed, args, parms, jh, ret, pre, t0,
                   invocations, budget, tret>>

\* ... or the process dies in it
StopJoinInvalidCrashes(c) ==
    /\ ~crashed /\ pc[c] = "stop_join"
    /\ ~Joinable(pt_thread_pid)
    /\ crashed' = TRUE
    /\ UNCHANGED <<service, clock, pc, args, parms, jh, ret, pre, t0,
                   invocations, budget, tret>>

\* (mutation of JoinReady: the join does not wait for the thread)
JoinReady_NoWait(h) == TRUE

\* pthread_join returns once the thread it waits on has returned
JoinReady(h) == threads[h].pc = "done"

StopJoinReturn(c) ==
    /\ ~crashed /\ pc[c] = "stop_wait"
    /\ JoinReady(jh[c])
    /\ threads' = [threads EXCEPT ![jh[c]].joined = TRUE]
    /\ jh' = [jh EXCEPT ![c] = NULL]
    /\ pc' = [pc EXCEPT ![c] = "stop_setflag"]
    /\ UNCHANGED <<time_started_flag, time_offset, pt_thread_pid,
                   pt_callback_proc_id, heap, clock, crashed, args, parms, ret,
                   pre, t0, invocations, budget, tret>>

\* (mutation of StopSetFlag: the started flag is not cleared)
StopSetFlag_KeepsFlag(c) ==
    /\ ~crashed /\ pc[c] = "stop_setflag"
    /\ Return(c, "stop", "ptNoError")
    /\ args' = [args EXCEPT ![c] = NoArgs]
    /\ UNCHANGED <<service, clock, crashed, parms, jh, pre, t0,
                   invocations, budget, tret>>

\* lines 148-149: time_started_flag = FALSE; return ptNoError;
StopSetFlag(c) ==
    /\ ~crashed /\ pc[c] = "stop_setflag"
    /\ time_started_flag' = FALSE
    /\ Return(c, "stop", "ptNoError")
    /\ args' = [args EXCEPT ![c] = NoArgs]
    /\ UNCHANGED <<time_offset, pt_thread_pid, pt_callback_proc_id, heap,
                   threads, clock, crashed, parms, jh, pre, t0,
                   invocations, budget, tret>>

\* ------------------------------------------------------------------ Pt_Time
\* lines 159-164: the caller keeps what Pt_Time returned
TimeCall(c) ==
    /\ ~crashed /\ pc[c] = "idle"
    /\ tret' = [tret EXCEPT ![c] = [valid |-> TRUE, val |-> Pt_Time]]
    /\ UNCHANGED <<service, clock, crashed, pc, args, parms, jh, ret, pre, t0,
                   invocations, budget>>

\* ---------------------------------------------------------- Pt_CallbackProc
ThreadFrame == <<time_started_flag, time_offset, pt_thread_pid,
                 pt_callback_proc_id, heap, clock, crashed, pc, args, parms, jh,
                 ret, pre, t0, budget, tret>>

\* (mutation of ThrPrio: the thread samples the time origin anew on entry)
ThrPrio_GetsTime(h) ==
    /\ ~crashed /\ h \in Handles /\ threads[h].pc = "prio"
    /\ threads' = [threads EXCEPT ![h].pc = "check"]
    /\ time_offset' = clock
    /\ UNCHANGED <<time_started_flag, pt_thread_pid, pt_callback_proc_id, heap,
                   clock, crashed, pc, args, parms, jh, ret, pre, t0,
                   invocations, budget, tret>>

\* line 70: if (geteuid() == 0) setpriority(PRIO_PROCESS, 0, -20);
ThrPrio(h) ==
    /\ ~crashed /\ h \in Handles /\ threads[h].pc = "prio"
    /\ threads' = [threads EXCEPT ![h].pc = "check"]
    /\ UNCHANGED <<ThreadFrame, invocations>>

\* (mutation of NotCancelled: the loop condition never fails)
NotCancelled_Always(h) == TRUE

\* (mutation of NotCancelled: the loop gives up one generation late)
NotCancelled_OneLate(h) == pt_callback_proc_id <= heap[threads[h].parms].id + 1

\* line 71: while (pt_callback_proc_id == parameters->id)
NotCancelled(h) == pt_callback_proc_id = heap[threads[h].parms].id

ThrCheck(h) ==
    /\ ~crashed /\ h \in Handles /\ threads[h].pc = "check"
    /\ threads' = [threads EXCEPT ![h].pc = IF NotCancelled(h) THEN "delay" ELSE "done"]
    /\ UNCHANGED <<ThreadFrame, invocations>>

\* (mutation of Delay: line 75's clamp is missing)
Delay_NoClamp(h) ==
    threads[h].mytime * heap[threads[h].parms].resolution - Pt_Time

\* lines 74-75: delay = mytime++ * resolution - Pt_Time(); if (delay < 0) delay = 0;
Delay(h) ==
    LET d == threads[h].mytime * heap[threads[h].parms].resolution - Pt_Time
    IN  IF d < 0 THEN 0 ELSE d

\* lines 73-78: compute the delay and enter select()
ThrDelay(h) ==
    /\ ~crashed /\ h \in Handles /\ threads[h].pc = "delay"
    /\ threads' = [threads EXCEPT ![h].pc = "sleep",
                                  ![h].delay = Delay(h),
                                  ![h].mytime = @ + 1,
                                  ![h].since = clock]
    /\ UNCHANGED <<ThreadFrame, invocations>>

\* (mutation of SleepOver: select() returns at once, whatever its timeout)
SleepOver_AtOnce(h) == TRUE

\* (mutation of SleepOver: select() never returns)
SleepOver_Never(h) == FALSE

\* line 78: select() returns when at least the timeout has elapsed
SleepOver(h) == ElapsedMs(threads[h].since, clock) >= threads[h].delay

ThrSleep(h) ==
    /\ ~crashed /\ h \in Handles /\ threads[h].pc = "sleep"
    /\ SleepOver(h)
    /\ threads' = [threads EXCEPT ![h].pc = "call",
                                  ![h].delay = 0,
                                  ![h].since = ZeroTime]
    /\ UNCHANGED <<ThreadFrame, invocations>>

\* line 79: (*(parameters->callback))(Pt_Time(), parameters->userData);
\* the callback is entered
ThrCall(h) ==
    /\ ~crashed /\ h \in Handles /\ threads[h].pc = "call"
    /\ invocations' = invocations + 1
    /\ threads' = [threads EXCEPT ![h].pc = "incb",
                                  ![h].since = clock,
                                  ![h].post =
                                      IF pt_callback_proc_id = heap[threads[h].parms].id
                                         THEN @ ELSE @ + 1]
    /\ UNCHANGED ThreadFrame

\* line 79: the callback returns, and the loop goes back to line 71
ThrCallReturn(h) ==
    /\ ~crashed /\ h \in Handles /\ threads[h].pc = "incb"
    /\ threads' = [threads EXCEPT ![h].pc = "check", ![h].since = ZeroTime]
    /\ UNCHANGED <<ThreadFrame, invocations>>

\* ---------------------------------------------------------------- the clock
Tick ==
    /\ ~crashed /\ clock.sec < MaxSec
    /\ clock' = AddNs(clock, ClockStepNs)
    /\ UNCHANGED <<service, crashed, pc, args, parms, jh, ret, pre, t0,
                   invocations, budget, tret>>

\* the clock sampled just on and half a millisecond after each half second
HalfMsNs == NsPerMs \div 2

TickSub ==
    /\ ~crashed /\ clock.sec < MaxSubSec
    /\ clock' = AddNs(clock, IF clock.nsec % ClockStepNs = 0
                                THEN HalfMsNs ELSE ClockStepNs - HalfMsNs)
    /\ UNCHANGED <<service, crashed, pc, args, parms, jh, ret, pre, t0,
                   invocations, budget, tret>>

\* the clock sampled every quarter second, for sleeps that overshoot their
\* timeout by less than one resolution and callbacks that run for less than
\* one resolution; the other statements take no time
FineStepNs == ClockStepNs \div 2

MayPass(h, t) ==
    LET res == heap[threads[h].parms].resolution
    IN  CASE threads[h].pc = "sleep" ->
                 ElapsedMs(threads[h].since, t) < threads[h].delay + res
          [] threads[h].pc = "incb" ->
                 ElapsedMs(threads[h].since, t) < res
          [] OTHER -> FALSE

TickFine ==
    /\ ~crashed /\ clock.sec < MaxTickSec
    /\ \A c \in Callers : pc[c] \in {"idle", "off"}
    /\ \A h \in Handles : MayPass(h, AddNs(clock, FineStepNs))
    /\ clock' = AddNs(clock, FineStepNs)
    /\ UNCHANGED <<service, crashed, pc, args, parms, jh, ret, pre, t0,
                   invocations, budget, tret>>

\* time does not stop for a thread that sleeps while Pt_Stop waits for it
TickLive ==
    /\ ~crashed /\ clock.sec >= MaxSec
    /\ \E c \in Callers : pc[c] = "stop_wait"
    /\ \E h \in Handles :
          /\ threads[h].pc = "sleep"
          /\ ElapsedMs(threads[h].since, clock) < threads[h].delay
    /\ clock' = AddNs(clock, ClockStepNs)
    /\ UNCHANGED <<service, crashed, pc, args, parms, jh, ret, pre, t0,
                   invocations, budget, tret>>

\* the clock moves to a later sample
ClockJump(s) ==
    /\ ~crashed /\ s # clock /\ NotEarlier(clock, s)
    /\ clock' = s
    /\ UNCHANGED <<service, crashed, pc, args, parms, jh, ret, pre, t0,
                   invocations, budget, tret>>

\* ------------------------------------------------------------ specification
InitWith(active, ncalls) ==
    /\ time_started_flag = FALSE
    /\ time_offset = ZeroTime
    /\ pt_thread_pid = 0
    /\ pt_callback_proc_id = 0
    /\ heap = << >>
    /\ threads = << >>
    /\ clock = [sec |-> 0, nsec |-> 0]
    /\ crashed = FALSE
    /\ pc = [c \in Callers |-> IF c \in active THEN "idle" ELSE "off"]
    /\ args = [c \in Callers |-> NoArgs]
    /\ parms = [c \in Callers |-> NULL]
    /\ jh = [c \in Callers |-> NULL]
    /\ ret = [c \in Callers |-> [op |-> "none", val |-> "none"]]
    /\ pre = [c \in Callers |-> NoSnapshot]
    /\ t0 = [c \in Callers |-> ZeroTime]
    /\ invocations = 0
    /\ budget = [c \in Callers |-> ncalls]
    /\ tret = [c \in Callers |-> NoTime]

\* one caller thread: every sequence of calls
Init == InitWith({1}, -1)

\* two caller threads, whose calls overlap, each making MaxConcCalls calls
InitConc == InitWith(Callers, MaxConcCalls)

\* a step of caller c, inside Pt_Start or Pt_Stop
CallerStep(c) ==
    \/ \E a \in ArgSet : StartCall(c, a)
    \/ StartCheck(c)
    \/ StartGetTime(c)
    \/ StartMallocFail(c)
    \/ StartMallocOk(c)
    \/ StartCreateFail(c)
    \/ StartCreateOk(c)
    \/ StartSetFlag(c)
    \/ StopCall(c)
    \/ StopIncr(c)
    \/ StopJoinCall(c)
    \/ StopJoinInvalidReturns(c)
    \/ StopJoinInvalidCrashes(c)
    \/ StopJoinReturn(c)
    \/ StopSetFlag(c)

\* a step of the background thread h, inside Pt_CallbackProc
ThreadStep(h) ==
    \/ ThrPrio(h)
    \/ ThrCheck(h)
    \/ ThrDelay(h)
    \/ ThrSleep(h)
    \/ ThrCall(h)
    \/ ThrCallReturn(h)

Next ==
    \/ \E c \in Callers : CallerStep(c)
    \/ \E h \in 1..MaxAlloc : ThreadStep(h)
    \/ Tick

Spec == Init /\ [][Next]_vars

SpecConc == InitConc /\ [][Next]_vars

\* one caller making MaxLiveCalls calls, with a clock that keeps running for
\* a sleeping thread; the threads are scheduled fairly and every callback
\* returns (ThreadStep), time passes, and pthread_join and the rest of
\* Pt_Stop proceed once the thread has returned
InitLive == InitWith({1}, MaxLiveCalls)

NextLive == Next \/ TickLive

Fairness ==
    /\ \A h \in 1..MaxAlloc : WF_vars(ThreadStep(h))
    /\ WF_vars(Tick \/ TickLive)
    /\ \A c \in Callers : WF_vars(StopJoinReturn(c) \/ StopSetFlag(c))

SpecLive == InitLive /\ [][NextLive]_vars /\ Fairness

\* starts and the callback thread on a clock with sub-millisecond samples,
\* so that the time origin need not fall on a whole millisecond
NextSub ==
    \/ \E c \in Callers :
          \/ \E a \in ArgSet : StartCall(c, a)
          \/ StartCheck(c)
          \/ StartGetTime(c)
          \/ StartMallocFail(c)
          \/ StartMallocOk(c)
          \/ StartCreateFail(c)
          \/ StartCreateOk(c)
          \/ StartSetFlag(c)
    \/ \E h \in 1..MaxAlloc : ThreadStep(h)
    \/ TickSub

SpecSub == Init /\ [][NextSub]_vars

\* starts and the callback thread on a quarter-second clock where only
\* select() and the callback take time, each less than its limit
NextTick ==
    \/ \E c \in Callers :
          \/ \E a \in ArgSet : StartCall(c, a)
          \/ StartCheck(c)
          \/ StartGetTime(c)
          \/ StartMallocFail(c)
          \/ StartMallocOk(c)
          \/ StartCreateFail(c)
          \/ StartCreateOk(c)
          \/ StartSetFlag(c)
    \/ \E h \in 1..MaxAlloc : ThreadStep(h)
    \/ TickFine

SpecTick == Init /\ [][NextTick]_vars

\* the clock alone: starts without a callback, stops, and Pt_Time read at
\* clock samples down to the nanosecond
ClockOnlyArgs == {a \in ArgSet : a.callback = NoCallback}

NextClock ==
    \/ \E c \in Callers :
          \/ \E a \in ClockOnlyArgs : StartCall(c, a)
          \/ StartCheck(c)
          \/ StartGetTime(c)
          \/ StartSetFlag(c)
          \/ StopCall(c)
          \/ StopIncr(c)
          \/ StopJoinInvalidReturns(c)
          \/ StopJoinInvalidCrashes(c)
          \/ StopSetFlag(c)
          \/ TimeCall(c)
    \/ \E s \in ClockSamples : ClockJump(s)

SpecClock == Init /\ [][NextClock]_vars

\* ------------------------------------------------------------------ claims
\* what a caller that is between calls has last seen
Idle(c) == pc[c] = "idle"
StartReturned(c, val) == Idle(c) /\ ret[c] = [op |-> "start", val |-> val]
StartFailed(c) ==
    StartReturned(c, "ptInsufficientMemory") \/ StartReturned(c, "ptHostError")
StopReturned(c) == Idle(c) /\ ret[c].op = "stop"
\* the last Pt_Start of c was called while the service was Stopped
FromStopped(c) == ~pre[c].flag
\* the registration a thread runs on
Registration(h) == heap[threads[h].parms]
\* the threads that run on registration p
ThreadsOf(p) == {h \in Handles : threads[h].parms = p}

\* C1 (clean stop): from the moment a Pt_Stop has returned until the caller
\* makes its next call, no step invokes the callback: the invocation count
\* stays what it was.
C1_CleanStop ==
    [][\A c \in Callers : StopReturned(c) => invocations' = invocations]_vars

\* a Pt_Stop has returned after the thread it joined had invoked the callback,
\* and the clock has moved on since the service was started
C1_Witness ==
    /\ StopReturned(1) /\ invocations > 0
    /\ \E h \in Handles : threads[h].joined /\ threads[h].mytime > 1
    /\ clock.sec >= 1

\* C2 (idempotent start): the step by which a Pt_Start called while the
\* service is started leaves its check of time_started_flag returns ptNoError
\* and changes neither the started flag, the time origin, the generation
\* counter, the thread handle, the registrations nor the threads.
C2_IdempotentStart ==
    [][\A c \in Callers :
          (pc[c] = "start_check" /\ time_started_flag /\ pc'[c] # "start_check")
              => /\ StartReturned(c, "ptNoError")'
                 /\ time_started_flag'
                 /\ time_offset' = time_offset
                 /\ pt_callback_proc_id' = pt_callback_proc_id
                 /\ pt_thread_pid' = pt_thread_pid
                 /\ heap' = heap
                 /\ threads' = threads]_vars

\* a second Pt_Start, whose arguments all differ from those the running
\* thread was registered with, has returned while that thread was running
C2_Witness ==
    /\ StartReturned(1, "ptNoError") /\ pre[1].flag
    /\ Running(pt_thread_pid)
    /\ Registration(pt_thread_pid).callback # args[1].callback
    /\ Registration(pt_thread_pid).resolution # args[1].resolution
    /\ Registration(pt_thread_pid).userData # args[1].userData
    /\ args[1].callback # NoCallback

\* C3 (state reflects lifecycle): whenever the single caller is between
\* calls, Pt_Started() is false if it has made no call yet, true if its last
\* call was a Pt_Start that returned ptNoError, false if it was a Pt_Stop.
C3_StateReflectsLifecycle ==
    \A c \in Callers :
        Idle(c) => /\ ret[c].op = "none" => ~Pt_Started
                   /\ StartReturned(c, "ptNoError") => Pt_Started
                   /\ StopReturned(c) => ~Pt_Started

\* a Pt_Stop has returned after a Pt_Start had created a thread
C3_Witness ==
    /\ StopReturned(1) /\ ~Pt_Started
    /\ Len(threads) > 0 /\ pt_callback_proc_id > 0

\* C4 (start failure outcome): after a Pt_Start called from Stopped with a
\* callback, a failed allocation (parms is NULL) has returned
\* ptInsufficientMemory and only it has, an allocation that no thread was
\* created on has returned ptHostError and only it has, and after either
\* return the started flag is false and no background thread exists.
C4_StartFailureOutcome ==
    \A c \in Callers :
        (Idle(c) /\ ret[c].op = "start" /\ FromStopped(c)
                 /\ args[c].callback # NoCallback)
            => /\ parms[c] = NULL <=> ret[c].val = "ptInsufficientMemory"
               /\ (parms[c] # NULL /\ ThreadsOf(parms[c]) = {})
                      <=> ret[c].val = "ptHostError"
               /\ StartFailed(c) => (~Pt_Started /\ LiveThreads = {})

\* a Pt_Start has failed in thread creation after an earlier start/stop cycle
C4_Witness ==
    /\ StartReturned(1, "ptHostError") /\ FromStopped(1)
    /\ Len(heap) = 2 /\ Len(threads) = 1 /\ invocations > 0

\* C5 (no partial state on failed start): after a Pt_Start has returned
\* ptInsufficientMemory or ptHostError, the started flag, the time origin, the
\* generation counter and the set of allocated registrations are what they
\* were when it was called.
C5_NoPartialState ==
    \A c \in Callers :
        StartFailed(c) => /\ time_started_flag = pre[c].flag
                          /\ time_offset = pre[c].origin
                          /\ pt_callback_proc_id = pre[c].gen
                          /\ Len(heap) = pre[c].nheap

\* C6 (re-start after stop): after a Pt_Start with a callback has succeeded
\* from Stopped, the thread pt_thread_pid names is running, its registration
\* holds the live generation, so that its cancellation check passes, and
\* every other thread has returned and been joined.
C6_Restart ==
    \A c \in Callers :
        (StartReturned(c, "ptNoError") /\ FromStopped(c)
                 /\ args[c].callback # NoCallback)
            => /\ Running(pt_thread_pid)
               /\ Registration(pt_thread_pid).id = pt_callback_proc_id
               /\ NotCancelled(pt_thread_pid)
               /\ \A g \in Handles \ {pt_thread_pid} :
                      ~Running(g) /\ threads[g].joined

\* the thread of a second start has invoked the callback, after the thread of
\* the first start was cancelled by a Pt_Stop
C6_Witness ==
    /\ StartReturned(1, "ptNoError") /\ FromStopped(1)
    /\ Len(threads) = 2 /\ pt_thread_pid = 2
    /\ threads[2].mytime > 1 /\ threads[2].pc = "check"
    /\ pt_callback_proc_id = 1 /\ threads[1].mytime > 1

\* C7 (stop with no thread): a Pt_Stop that reaches its wait step while no
\* unjoined thread exists calls pthread_join on no handle.
C7_StopNoThread ==
    [][\A c \in Callers :
          (pc[c] = "stop_join" /\ Unjoined = {})
              => ~(StopJoinCall(c) \/ StopJoinInvalidReturns(c)
                                   \/ StopJoinInvalidCrashes(c))]_vars

\* C8 (at most one background thread): at most one thread that has been
\* spawned has not yet returned.
C8_AtMostOneThread == Cardinality(LiveThreads) <= 1

\* C9 (registration ownership): after a Pt_Stop has returned, no
\* registration is allocated.
C9_RegistrationFreed ==
    \A c \in Callers : StopReturned(c) => Len(heap) = 0

\* C10 (pure clock mode): after a Pt_Start without a callback, called from
\* Stopped, has returned, it has returned ptNoError, the service is started,
\* no thread exists that has not returned and been joined, and Pt_Time() is
\* the non-negative number of milliseconds from the clock sample that
\* Pt_Start took to the current one.
C10_PureClock ==
    \A c \in Callers :
        (Idle(c) /\ ret[c].op = "start" /\ FromStopped(c)
                 /\ args[c].callback = NoCallback)
            => /\ ret[c].val = "ptNoError"
               /\ Pt_Started
               /\ LiveThreads = {} /\ Unjoined = {}
               /\ Pt_Time = timediff_from(t0[c], clock)
               /\ Pt_Time >= 0

\* a start without a callback has returned, after an earlier cycle with a
\* thread, and the clock has advanced since
C10_Witness ==
    /\ StartReturned(1, "ptNoError") /\ FromStopped(1)
    /\ args[1].callback = NoCallback
    /\ Len(threads) = 1 /\ invocations > 0
    /\ Pt_Time > 0

\* C11: with the origin fixed, a Pt_Time on a sample that is not earlier than
\* the sample of the Pt_Time before it returns a value that is not smaller,
\* also across a seconds boundary where the nanosecond difference is
\* negative and the division truncates.
C11_Monotonic ==
    [][\A c \in Callers :
          (tret[c].valid /\ tret'[c].valid) => tret'[c].val >= tret[c].val]_vars

\* Pt_Time has returned a positive value on a sample one second and more
\* after the origin whose nanoseconds are below the origin's
C11_Witness ==
    /\ Pt_Started /\ Idle(1)
    /\ clock.sec > time_offset.sec /\ clock.nsec < time_offset.nsec
    /\ tret[1] = [valid |-> TRUE, val |-> 1]

\* C12: while the service is started, Pt_Time is counted from the clock
\* sample of the latest Pt_Start that was not a no-op: it is 0 on that very
\* sample, never negative on a sample that is not earlier, and less than a
\* millisecond away from the time elapsed since that sample.
C12_NonNegative ==
    \A c \in Callers :
        (Idle(c) /\ Pt_Started /\ NotEarlier(t0[c], clock))
            => /\ Pt_Time >= 0
               /\ clock = t0[c] => Pt_Time = 0
               /\ tret[c].valid => tret[c].val >= 0
               /\ Pt_Time - ElapsedMs(t0[c], clock) \in {0, 1}

\* after a stop and a second start that took a later origin, Pt_Time
\* returned 0 on a sample less than a millisecond after that origin
C12_Witness ==
    /\ Pt_Started /\ StartReturned(1, "ptNoError")
    /\ pt_callback_proc_id = 1
    /\ t0[1].sec = 1 /\ t0[1].nsec = 500000
    /\ clock.sec = 1 /\ clock.nsec = 999999
    /\ tret[1] = [valid |-> TRUE, val |-> 0]

\* the callback invocations made so far are within one of Pt_Time / resolution
TickCountClose(h) ==
    LET due == Pt_Time \div Registration(h).resolution
    IN  invocations - due \in {-1, 0, 1}

\* the thread is not behind schedule: the target of its next delay
\* computation has not passed, and a sleep in progress has not overshot its
\* target by a whole resolution
OnSchedule(h) ==
    LET next == threads[h].mytime * Registration(h).resolution
    IN  IF threads[h].pc \in {"sleep", "call"}
           THEN Pt_Time < next ELSE Pt_Time <= next

C14_CancellationCheck ==
    [][/\ \A h \in Handles :
            /\ (threads[h].pc = "check" /\ threads'[h].pc # "check")
                   => /\ threads'[h].pc =
                            IF pt_callback_proc_id = Registration(h).id
                               THEN "delay" ELSE "done"
                      /\ invocations' = invocations
            /\ (threads'[h].pc = "delay" /\ threads[h].pc # "delay")
                   => threads[h].pc = "check"
            /\ (threads'[h].pc = "sleep" /\ threads[h].pc # "sleep")
                   => threads[h].pc = "delay"
            /\ (threads'[h].pc = "call" /\ threads[h].pc # "call")
                   => threads[h].pc = "sleep"
            /\ (threads'[h].pc = "check" /\ threads[h].pc # "check")
                   => threads[h].pc \in {"prio", "incb"}
            /\ threads[h].pc = "done" => threads'[h].pc = "done"
       /\ invocations' # invocations
            => \E h \in Handles : threads[h].pc = "call" /\ threads'[h].pc = "incb"
      ]_vars

\* a thread that has invoked its callback has seen the mismatch and exited,
\* while Pt_Stop still waits for it
C14_Witness ==
    /\ pc[1] = "stop_wait"
    /\ threads[1].pc = "done" /\ ~threads[1].joined
    /\ pt_callback_proc_id # Registration(1).id
    /\ invocations > 0

\* C15: a thread invokes its callback at most once while pt_callback_proc_id
\* differs from the generation it was registered with.
C15_BoundedPostSignal == \A h \in Handles : threads[h].post <= 1

\* the thread has made one invocation after Pt_Stop incremented the
\* generation, that of the iteration it was in, and has exited
C15_Witness ==
    /\ Len(threads) >= 1
    /\ threads[1].post = 1 /\ threads[1].pc = "done"
    /\ pt_callback_proc_id = Registration(1).id + 1

\* C16: a Pt_Stop that waits in pthread_join for a thread eventually returns,
\* and it leaves pthread_join only when that thread has left its loop and
\* returned from Pt_CallbackProc, with no callback in progress.
C16_StopTerminates ==
    /\ \A c \in Callers : (pc[c] = "stop_wait") ~> StopReturned(c)
    /\ [][\A c \in Callers :
             (pc[c] = "stop_wait" /\ pc'[c] # "stop_wait")
                => /\ threads[jh[c]].pc = "done"
                   /\ pt_callback_proc_id # Registration(jh[c]).id]_vars

\* Pt_Stop has returned after it waited for a thread that had to sleep past
\* the clock's horizon and made its last invocation before it exited
C16_Witness ==
    /\ StopReturned(1) /\ Len(threads) = 1
    /\ threads[1].joined /\ threads[1].pc = "done" /\ threads[1].post = 1
    /\ clock.sec > MaxSec
    /\ ~time_started_flag

\* C17: mytime starts at 1 and grows by one in each iteration, and, select()
\* never returning before its timeout has elapsed, a thread is about to make
\* its k-th invocation only when Pt_Time() >= k * resolution.
C17_NeverEarly ==
    \A h \in Handles :
        /\ threads[h].mytime >= 1
        /\ threads[h].pc = "call"
              => Pt_Time >= (threads[h].mytime - 1) * Registration(h).resolution

\* C18: the timeout the thread gives to select() in iteration n is
\* max(0, n * resolution - Pt_Time()), never negative, with n incremented;
\* when n * resolution <= Pt_Time() the timeout is 0 and the sleep is over
\* at once, with no advance of the clock.
C18_ClampedDelay ==
    [][\A h \in Handles :
          (threads[h].pc = "delay" /\ threads'[h].pc = "sleep")
             => LET target == threads[h].mytime * Registration(h).resolution
                IN  /\ threads'[h].delay >= 0
                    /\ threads'[h].delay >= target - Pt_Time
                    /\ threads'[h].delay \in {0, target - Pt_Time}
                    /\ threads'[h].mytime = threads[h].mytime + 1
                    /\ Pt_Time >= target
                          => /\ threads'[h].delay = 0
                             /\ ElapsedMs(threads'[h].since, clock') >= 0
      ]_vars

\* a thread whose second target has been reached when it computes its second
\* delay asks for a timeout of 0
C18_Witness ==
    /\ Len(threads) >= 1
    /\ threads[1].pc = "sleep" /\ threads[1].delay = 0
    /\ threads[1].mytime = 3
    /\ invocations = 1 /\ Pt_Time = 1000 /\ Registration(1).resolution = 500

\* C19: Pt_Start has taken the time origin when it creates the thread, and
\* while a thread has not returned from Pt_CallbackProc no step writes
\* time_offset.
C19_OriginFixed ==
    [][/\ Len(threads') > Len(threads)
            => \E c \in Callers : /\ pc[c] = "start_create"
                                  /\ pc'[c] = "start_setflag"
                                  /\ time_offset = t0[c]
       /\ (\E h \in Handles : threads[h].pc # "done")
            => time_offset' = time_offset
      ]_vars

\* in the second cycle, whose origin is a later clock sample, the thread has
\* invoked its callback and the clock has advanced since the origin
C19_Witness ==
    /\ Len(threads) = 2 /\ threads[2].pc = "incb"
    /\ time_offset = t0[1] /\ time_offset # ZeroTime
    /\ clock # time_offset

\* C20: a step of a thread leaves time_started_flag, pt_callback_proc_id and
\* time_offset as they are; pt_callback_proc_id changes only in the step of
\* Pt_Stop at line 146, by exactly 1, and in no step of Pt_Start.
C20_SingleWriter ==
    [][/\ (\E h \in Handles : threads'[h].pc # threads[h].pc)
            => /\ time_started_flag' = time_started_flag
               /\ pt_callback_proc_id' = pt_callback_proc_id
               /\ time_offset' = time_offset
       /\ pt_callback_proc_id' # pt_callback_proc_id
            => /\ pt_callback_proc_id' = pt_callback_proc_id + 1
               /\ \E c \in Callers : pc[c] = "stop_incr" /\ pc'[c] = "stop_join"
      ]_vars

\* the thread of the second cycle runs after a stop has advanced the
\* generation, and the thread of the first cycle has exited
C20_Witness ==
    /\ pt_callback_proc_id = 1
    /\ Len(threads) = 2 /\ threads[1].pc = "done" /\ threads[2].pc = "incb"
    /\ Registration(2).id = 1 /\ time_started_flag

====
